---- MODULE Spec2Model ----
(***************************************************************************)
(* A model of hw4.py: logistic regression by gradient descent, k-fold      *)
(* cross validation, EM for 1-D Gaussian mixtures and the Naive Bayes      *)
(* classifier built on it.                                                 *)
(*                                                                         *)
(* Arithmetic.  numpy's float64 values are modelled as exact rationals     *)
(* together with the IEEE special values the code produces by dividing by  *)
(* zero (inf, nan); a square root that is not rational is kept as a surd.  *)
(* Rounding and exponent underflow are not modelled.  exp and log have no  *)
(* exact rational value: norm_pdf, gmm_pdf, the sigmoid and the costs are  *)
(* uninterpreted, their values drawn from small sets.                      *)
(***************************************************************************)
EXTENDS Integers, Sequences, FiniteSets, TLC

\* ------------------------------------------------------------- bounds
\* longest data vector / largest number of instances
MaxM == 3
\* largest n_iter an estimator is constructed with
MaxNIter == 4
\* component-iterations (k * n_iter, summed over the fit calls) of one EM instance
MaxWork == 4
\* fit calls made on one estimator instance
MaxFits == 2
\* most instances given to cross_validation
MaxRows == 4
\* entries of the cost history Js of one LogisticRegressionGD instance
MaxJs == 6
\* draws other estimators make from numpy's generator between two calls
MaxDraws == 1

\* ------------------------------------------------------------ numbers
RECURSIVE GCD(_, _)
GCD(a, b) == IF b = 0 THEN a ELSE GCD(b, a % b)

Abs(n) == IF n < 0 THEN -n ELSE n

\* the float n/d, in lowest terms with a positive denominator
Q(n, d) ==
    LET g == GCD(Abs(n), Abs(d))
        s == IF d < 0 THEN -1 ELSE 1
    IN [t |-> "q", n |-> (s * n) \div g, d |-> (s * d) \div g]

I(n) == [t |-> "q", n |-> n, d |-> 1]
NaN == [t |-> "nan", n |-> 0, d |-> 1]
\* +inf / -inf
Inf(s) == [t |-> "inf", n |-> s, d |-> 1]

IsQ(a) == a.t = "q"
Sgn(a) == IF a.n > 0 THEN 1 ELSE IF a.n < 0 THEN -1 ELSE 0

\* a + b on floats (a surd is held only by sigmas, which no arithmetic reads)
Add(a, b) ==
    IF a.t = "nan" \/ b.t = "nan" \/ a.t = "sqrt" \/ b.t = "sqrt" THEN NaN
    ELSE IF a.t = "inf" /\ b.t = "inf" THEN (IF a.n = b.n THEN a ELSE NaN)
    ELSE IF a.t = "inf" THEN a
    ELSE IF b.t = "inf" THEN b
    ELSE Q(a.n * b.d + b.n * a.d, a.d * b.d)

Neg(a) == IF a.t = "nan" THEN NaN ELSE [a EXCEPT !.n = -a.n]

Sub(a, b) == Add(a, Neg(b))

\* a * b on floats
Mul(a, b) ==
    IF a.t = "nan" \/ b.t = "nan" \/ a.t = "sqrt" \/ b.t = "sqrt" THEN NaN
    ELSE IF a.t = "inf" \/ b.t = "inf"
         THEN (IF Sgn(a) * Sgn(b) = 0 THEN NaN ELSE Inf(Sgn(a) * Sgn(b)))
    ELSE Q(a.n * b.n, a.d * b.d)

\* a / b on floats: x/0 is inf (nan for 0/0), as numpy computes it
Div(a, b) ==
    IF a.t = "nan" \/ b.t = "nan" \/ a.t = "sqrt" \/ b.t = "sqrt" THEN NaN
    ELSE IF b.t = "inf" THEN (IF a.t = "inf" THEN NaN ELSE I(0))
    ELSE IF a.t = "inf" THEN (IF b.n = 0 THEN a ELSE Inf(Sgn(a) * Sgn(b)))
    ELSE IF b.n = 0 THEN (IF a.n = 0 THEN NaN ELSE Inf(Sgn(a)))
    ELSE Q(a.n * b.d, a.d * b.n)

\* a < b on floats: every comparison with nan is false
Lt(a, b) ==
    IF a.t = "nan" \/ b.t = "nan" THEN FALSE
    ELSE IF a.t = "inf" THEN a.n < 0 /\ ~(b.t = "inf" /\ b.n < 0)
    ELSE IF b.t = "inf" THEN b.n > 0
    ELSE a.n * b.d < b.n * a.d

\* a >= b on floats
Ge(a, b) == (a.t # "nan" /\ b.t # "nan") /\ ~Lt(a, b)

\* the integer square root, by bisection on lo*lo <= n < hi*hi
RECURSIVE Bisect(_, _, _)
Bisect(n, lo, hi) ==
    IF hi - lo <= 1 THEN lo
    ELSE LET mid == (lo + hi) \div 2
         IN IF mid <= n \div mid THEN Bisect(n, mid, hi) ELSE Bisect(n, lo, mid)

Root(n) == IF n = 0 THEN 0 ELSE Bisect(n, 1, n + 1)
IsSquare(n) == Root(n) * Root(n) = n

\* np.sqrt: exact where the root is rational, a surd otherwise
Sqrt(a) ==
    IF a.t = "nan" \/ a.t = "sqrt" THEN NaN
    ELSE IF a.t = "inf" THEN (IF a.n > 0 THEN a ELSE NaN)
    ELSE IF a.n < 0 THEN NaN
    ELSE IF IsSquare(a.n) /\ IsSquare(a.d) THEN Q(Root(a.n), Root(a.d))
    ELSE [t |-> "sqrt", n |-> a.n, d |-> a.d]

\* sum of a sequence of floats, left to right
RECURSIVE SumSeq(_)
SumSeq(s) == IF s = <<>> THEN I(0) ELSE Add(SumSeq(SubSeq(s, 1, Len(s) - 1)), s[Len(s)])

\* np.mean of a vector
Mean(s) == Div(SumSeq(s), I(Len(s)))

\* np.std of a vector: the population standard deviation
Std(s) ==
    LET mu == Mean(s)
    IN Sqrt(Mean([p \in 1..Len(s) |-> Mul(Sub(s[p], mu), Sub(s[p], mu))]))

\* ---------------------------------------------------- input domains
\* values of a 1-D data point
DataVals == {0, 1}
\* data vectors handed to EM.fit
DataSets == UNION {[1..m -> {I(v) : v \in DataVals}] : m \in 1..MaxM}
\* seeds (random_state)
Seeds == {0, 1}
\* number of mixture components k
KVals == {1, 2}
\* values of eps
EpsVals == {I(0), I(1)}
\* finite values a cost takes
CostVals == {I(0), I(1)}
\* positive values of a normal density
DensPos == {I(1), I(2)}
\* parameter vectors (bias, weight) a gradient step can produce
ThetaVecs == {<<I(-1), I(1)>>, <<I(1), I(-1)>>}
\* feature matrices (one feature) handed to LogisticRegressionGD.predict
LRInputs == {<<<<I(0)>>, <<I(2)>>>>, <<<<I(1)>>>>}
\* the training matrix given to NaiveBayesGaussian.fit
TrainX == <<<<I(0), I(0)>>, <<I(1), I(1)>>, <<I(3), I(0)>>, <<I(4), I(1)>>>>
\* X.shape[1], the feature columns of the Naive Bayes data
NFeat == Len(TrainX[1])
\* the label vectors given with it
TrainY == {<<1, 1, 2, 2>>, <<0, 0, 1, 1>>, <<1, 2, 1, 2>>, <<0, 1, 1, 2>>, <<2, 2, 2, 2>>}
\* feature matrices handed to NaiveBayesGaussian.predict
NBInputs == {<<<<I(1), I(0)>>>>, <<<<I(1), I(0)>>, <<I(3), I(1)>>>>}
\* np.random.random() returns a multiple of 1/RandDen in [0, 1)
RandDen == 4

VARIABLES
    np_random,          \* numpy's process-wide generator: seed and draws made
    em_k, em_n_iter, em_eps, em_random_state,
    data,               \* the argument of the running EM.fit
    responsibilities, weights, mus, sigmas, costs,
    em_i,               \* the loop variable of EM.fit
    em_pc,              \* off | constructed | loop | fitted | raised
    likelihood,         \* responsibilities before the row normalisation
    init_mus,           \* mus as init_params set them
    em_base,            \* Len(costs) when the running fit was entered
    em_fits             \* fit calls made on the instance

VARIABLES
    lr_n_iter, lr_eps, lr_random_state,
    theta, Js, thetas,  \* the fitted state of LogisticRegressionGD
    lr_i,               \* the loop variable of LogisticRegressionGD.fit
    lr_pc,              \* off | constructed | loop | fitted
    lr_base,            \* Len(Js) when the running fit was entered
    lr_fits,            \* fit calls made on the instance
    lr_X, lr_preds,     \* the last predict call: its argument and its result
    lr_seen             \* what predict returned since the last fit, by argument

lrVars == <<lr_n_iter, lr_eps, lr_random_state, theta, Js, thetas, lr_i, lr_pc,
            lr_base, lr_fits, lr_X, lr_preds, lr_seen>>

VARIABLES
    nb_k, nb_random_state,
    prior,              \* dict label -> prior, as the list of its items
    dist_params,        \* dict label -> list of mixture parameters, likewise
    nb_pc,              \* off | constructed | fitted | raised
    nb_fits,            \* fit calls made on the instance
    nb_y,               \* the labels given to the last fit call
    nb_X, nb_preds,     \* the last predict call: its argument and its result
    nb_seen,            \* what predict returned since the last fit, by argument
    gmm                 \* the values of gmm_pdf computed since the last fit

nbVars == <<nb_k, nb_random_state, prior, dist_params, nb_pc, nb_fits, nb_y,
            nb_X, nb_preds, nb_seen, gmm>>

VARIABLES
    cv_m,               \* X.shape[0]; the instances are named 1..cv_m
    folds, cv_random_state,
    shuffled_indices,
    num_of_elements,
    cv_i,               \* the loop variable of cross_validation
    cv_accuracy,
    cv_calls,           \* the instances given to algo.fit and to algo.predict, per fold
    cv_pc               \* off | called | fold | returned | raised

cvVars == <<cv_m, folds, cv_random_state, shuffled_indices, num_of_elements, cv_i,
            cv_accuracy, cv_calls, cv_pc>>

emVars == <<em_k, em_n_iter, em_eps, em_random_state, data, responsibilities,
            weights, mus, sigmas, costs, em_i, em_pc, likelihood, init_mus,
            em_base, em_fits>>

notEM == <<lrVars, nbVars, cvVars>>
notLR == <<emVars, nbVars, cvVars>>
notNB == <<emVars, lrVars, cvVars>>
notCV == <<emVars, lrVars, nbVars>>

\* Python's None
None == <<>>

\* the record of predict's results: the first result for each argument,
\* and whether the argument was given again
Noted(seen, X, out) ==
    IF X \in DOMAIN seen
    THEN [seen EXCEPT ![X] = [out |-> @.out, again |-> TRUE]]
    ELSE (X :> [out |-> out, again |-> FALSE]) @@ seen

\* --------------------------------------------------- numpy.random
\* np.random.seed(s)
Seeded(s) == [seed |-> s, pos |-> 0]
\* the generator after n more draws
Advance(st, n) == [st EXCEPT !.pos = st.pos + n]
\* the next output of the generator: a function of the seed and of the
\* number of draws made since seeding
NextOut(st) == st.seed + st.pos

Remove(s, j) == [q \in 1..(Len(s) - 1) |-> IF q < j THEN s[q] ELSE s[q + 1]]

\* np.random.choice(n, k, replace=False): k distinct indices of 1..n
RECURSIVE ChoiceFrom(_, _, _)
ChoiceFrom(st, pool, k) ==
    IF k = 0 THEN <<>>
    ELSE LET j == (NextOut(st) % Len(pool)) + 1
         IN <<pool[j]>> \o ChoiceFrom(Advance(st, 1), Remove(pool, j), k - 1)

Choice(st, n, k) == ChoiceFrom(st, [q \in 1..n |-> q], k)

\* ------------------------------------------------------------- EM
\* the values norm_pdf(x, mu, sigma) can take: positive for a finite
\* positive sigma; with sigma = 0 the factor 1/(sigma*sqrt(2 pi)) is inf
\* and the exponential is 0 or nan, so the product is nan
NormPdfVals(x, mu, sigma) ==
    IF x.t = "nan" \/ mu.t = "nan" \/ sigma.t = "nan" THEN {NaN}
    ELSE IF sigma.t = "inf" \/ mu.t = "inf" THEN {I(0)}
    ELSE IF sigma.t = "q" /\ sigma.n = 0 THEN {NaN}
    ELSE DensPos

\* the tables norm_pdf(data[p], mus[i], sigmas[i]) can be: norm_pdf is a
\* function, equal arguments give equal values
DensTables(x, mu, sg) ==
    LET m == Len(x)
        kk == Len(mu)
        keys == {<<x[p], mu[i], sg[i]>> : p \in 1..m, i \in 1..kk}
    IN {[p \in 1..m |-> [i \in 1..kk |->
            IF NormPdfVals(x[p], mu[i], sg[i]) = DensPos
            THEN f[<<x[p], mu[i], sg[i]>>]
            ELSE CHOOSE v \in NormPdfVals(x[p], mu[i], sg[i]) : TRUE]] :
        f \in [keys -> DensPos]}

\* EM.init_params up to the draw: uniform weights
InitWeights(kk) == [i \in 1..kk |-> Div(I(1), I(kk))]

\* EM.init_params: the means are k distinct data points drawn from np.random
InitMus(st, x, kk) == [i \in 1..kk |-> x[Choice(st, Len(x), kk)[i]]]

\* EM.init_params: every sigma is the standard deviation of the data
InitSigmas(x, kk) == [i \in 1..kk |-> Std(x)]

\* EM.expectation before the normalisation: weights[i] * norm_pdf column i
Likelihood(w, d) == [p \in 1..Len(d) |-> [i \in 1..Len(w) |-> Mul(w[i], d[p][i])]]

\* a slip in expectation: every entry divided by its column's sum
ExpectationByColumn(w, d) ==
    LET L == Likelihood(w, d)
    IN [p \in 1..Len(L) |-> [i \in 1..Len(w) |->
            Div(L[p][i], SumSeq([q \in 1..Len(L) |-> L[q][i]]))]]

\* EM.expectation: every row divided by its sum
Expectation(w, d) ==
    LET L == Likelihood(w, d)
    IN [p \in 1..Len(L) |-> [i \in 1..Len(w) |-> Div(L[p][i], SumSeq(L[p]))]]

\* column i of a matrix
Col(R, i) == [p \in 1..Len(R) |-> R[p][i]]

\* a.dot(b)
Dot(a, b) == SumSeq([p \in 1..Len(a) |-> Mul(a[p], b[p])])

\* EM.maximization: weights = np.mean(responsibilities, axis=0)
MaxWeights(R, kk) == [i \in 1..kk |-> Mean(Col(R, i))]

\* a slip in maximization: the means normalised by the weight alone
MaxMusNoM(R, x, w) ==
    [i \in 1..Len(w) |-> Mul(Div(I(1), w[i]), SumSeq([p \in 1..Len(x) |-> Mul(R[p][i], x[p])]))]

\* EM.maximization: mus = (1 / (m * weights)) * responsibilities.T.dot(data)
MaxMus(R, x, w) ==
    [i \in 1..Len(w) |-> Mul(Div(I(1), Mul(I(Len(x)), w[i])), Dot(Col(R, i), x))]

\* (data - mu) ** 2
SqDev(x, mu) == [p \in 1..Len(x) |-> Mul(Sub(x[p], mu), Sub(x[p], mu))]

\* a slip in maximization: the deviations taken from the previous means
MaxSigmasOldMu(R, x, w, mu) ==
    [i \in 1..Len(w) |->
        Sqrt(Mul(Div(I(1), Mul(I(Len(x)), w[i])),
                 SumSeq([p \in 1..Len(x) |->
                     Mul(R[p][i], Mul(Sub(x[p], mus[i]), Sub(x[p], mus[i])))])))]

\* EM.maximization: sigmas[i] = responsibilities.T[i].dot((data - mus[i])**2),
\* then sigmas = np.sqrt((1 / (m * weights)) * sigmas)
MaxSigmas(R, x, w, mu) ==
    [i \in 1..Len(w) |->
        Sqrt(Mul(Div(I(1), Mul(I(Len(x)), w[i])), Dot(Col(R, i), SqDev(x, mu[i]))))]

\* whether every entry of a parameter vector is a finite number
Finite(v) == \A i \in 1..Len(v) : v[i].t \in {"q", "sqrt"}

\* the values the cost -sum(log2(gmm_pdf(data[d], weights, mus, sigmas))) can
\* take: nan once a parameter is nan or a sigma is 0
CostValsOf(w, mu, sg) ==
    IF Finite(w) /\ Finite(mu) /\ Finite(sg) /\ \A i \in 1..Len(sg) : sg[i] # I(0)
    THEN CostVals ELSE {NaN}

\* a slip in the test: it is made from the second iteration on
ConvergedFromSecond(i, cs, e) == i > 0 /\ Lt(Sub(cs[Len(cs) - 1], cs[Len(cs)]), e)

\* the test that ends a fit loop: i > 1 and cost[-2] - cost[-1] < eps
Converged(i, cs, e) == i > 1 /\ Lt(Sub(cs[Len(cs) - 1], cs[Len(cs)]), e)

\* whether another EM.fit call is within the bounds of the model
CanFit == em_fits < MaxFits /\ (em_fits + 1) * em_k * em_n_iter <= MaxWork

\* EM.__init__: the parameters are stored, numpy's generator is seeded
EMConstructed ==
    /\ em_k \in KVals
    /\ em_n_iter \in 0..MaxNIter
    /\ em_k * em_n_iter <= MaxWork
    /\ em_eps \in EpsVals
    /\ em_random_state \in Seeds
    /\ np_random = Seeded(em_random_state)
    /\ responsibilities = None /\ weights = None /\ mus = None /\ sigmas = None
    /\ costs = <<>>
    /\ data = None /\ likelihood = None /\ init_mus = None
    /\ em_i = 0 /\ em_base = 0 /\ em_fits = 0
    /\ em_pc = "constructed"

\* between two calls on the EM instance another estimator is constructed or
\* fitted: EM.__init__, LogisticRegressionGD.fit and cross_validation seed
\* the same process-wide generator
SeedElsewhere ==
    /\ em_pc \in {"constructed", "fitted"}
    /\ CanFit
    /\ \E s \in Seeds : np_random' = Seeded(s)
    /\ UNCHANGED <<emVars, notEM>>

\* another estimator's fit draws from the process-wide generator
DrawElsewhere ==
    /\ em_pc \in {"constructed", "fitted"}
    /\ CanFit
    /\ np_random.pos < MaxDraws
    /\ np_random' = Advance(np_random, 1)
    /\ UNCHANGED <<emVars, notEM>>

\* EM.fit up to its loop: init_params(data).  A second fit is given the
\* training data of the first.
EMFitStart ==
    /\ em_pc \in {"constructed", "fitted"}
    /\ CanFit
    /\ \E x \in (IF em_fits = 0 THEN DataSets ELSE {data}) :
        /\ data' = x
        /\ weights' = InitWeights(em_k)
        /\ IF em_k > Len(x)
           THEN \* np.random.choice raises ValueError
                /\ em_pc' = "raised"
                /\ UNCHANGED <<mus, sigmas, np_random, init_mus>>
           ELSE /\ mus' = InitMus(np_random, x, em_k)
                /\ init_mus' = InitMus(np_random, x, em_k)
                /\ np_random' = Advance(np_random, em_k)
                /\ sigmas' = InitSigmas(x, em_k)
                /\ em_pc' = IF em_n_iter = 0 THEN "fitted" ELSE "loop"
    /\ em_i' = 0
    /\ em_base' = Len(costs)
    /\ em_fits' = em_fits + 1
    /\ UNCHANGED <<em_k, em_n_iter, em_eps, em_random_state, responsibilities,
                   costs, likelihood, notEM>>

\* one trip of the loop of EM.fit: expectation, maximization, the cost, the
\* convergence test
EMIterate ==
    /\ em_pc = "loop"
    /\ \E d \in DensTables(data, mus, sigmas) :
       \E R \in {Expectation(weights, d)} :
       \E w \in {MaxWeights(R, em_k)} :
       \E mu \in {MaxMus(R, data, w)} :
       \E sg \in {MaxSigmas(R, data, w, mu)} :
       \E cost \in CostValsOf(w, mu, sg) :
           /\ likelihood' = Likelihood(weights, d)
           /\ responsibilities' = R
           /\ weights' = w
           /\ mus' = mu
           /\ sigmas' = sg
           /\ costs' = Append(costs, cost)
           /\ em_pc' = IF Converged(em_i, Append(costs, cost), em_eps)
                           \/ em_i + 1 = em_n_iter
                        THEN "fitted" ELSE "loop"
    /\ em_i' = em_i + 1
    /\ UNCHANGED <<em_k, em_n_iter, em_eps, em_random_state, data, init_mus,
                   em_base, em_fits, np_random, notEM>>

\* no EM instance exists
EMOff ==
    /\ em_k = 0 /\ em_n_iter = 0 /\ em_eps = I(0) /\ em_random_state = 0
    /\ responsibilities = None /\ weights = None /\ mus = None /\ sigmas = None
    /\ costs = <<>> /\ data = None /\ likelihood = None /\ init_mus = None
    /\ em_i = 0 /\ em_base = 0 /\ em_fits = 0
    /\ em_pc = "off"

\* ----------------------------------------------- LogisticRegressionGD
\* np.random.random(n): n successive outputs of the generator, in [0, 1)
RandomVector(st, n) == [j \in 1..n |-> Q(NextOut(Advance(st, j - 1)) % RandDen, RandDen)]

\* apply_bias_trick: a column of ones before the features
ApplyBiasTrick(X) == [p \in 1..Len(X) |-> <<I(1)>> \o X[p]]

\* sigmoid(z) >= 0.5, which is z >= 0
SigmoidAtLeastHalf(z) == Ge(z, I(0))

\* LogisticRegressionGD.predict: 1 where sigmoid(X.dot(theta)) >= 0.5, else 0
LRPredictOut(th, X) ==
    LET Xb == ApplyBiasTrick(X)
    IN [p \in 1..Len(Xb) |-> IF SigmoidAtLeastHalf(Dot(Xb[p], th)) THEN 1 ELSE 0]

\* LogisticRegressionGD.__init__
LRConstructed ==
    /\ lr_n_iter \in 0..MaxNIter
    /\ lr_eps \in EpsVals
    /\ lr_random_state \in Seeds
    /\ theta = None /\ Js = <<>> /\ thetas = <<>>
    /\ lr_i = 0 /\ lr_base = 0 /\ lr_fits = 0
    /\ lr_X = None /\ lr_preds = None /\ lr_seen = <<>>
    /\ lr_pc = "constructed"

\* no LogisticRegressionGD instance exists
LROff ==
    /\ lr_n_iter = 0 /\ lr_eps = I(0) /\ lr_random_state = 0
    /\ theta = None /\ Js = <<>> /\ thetas = <<>>
    /\ lr_i = 0 /\ lr_base = 0 /\ lr_fits = 0
    /\ lr_X = None /\ lr_preds = None /\ lr_seen = <<>>
    /\ lr_pc = "off"

\* LogisticRegressionGD.fit up to its loop: the generator is seeded and theta
\* drawn from it (one feature and the bias)
LRFitStart ==
    /\ lr_pc \in {"constructed", "fitted"}
    /\ lr_fits < MaxFits
    /\ Len(Js) + lr_n_iter <= MaxJs
    /\ np_random' = Advance(Seeded(lr_random_state), 2)
    /\ theta' = RandomVector(Seeded(lr_random_state), 2)
    /\ lr_i' = 0
    /\ lr_base' = Len(Js)
    /\ lr_fits' = lr_fits + 1
    /\ lr_seen' = <<>>
    /\ lr_pc' = IF lr_n_iter = 0 THEN "fitted" ELSE "loop"
    /\ UNCHANGED <<lr_n_iter, lr_eps, lr_random_state, Js, thetas, lr_X, lr_preds, notLR>>

\* one trip of the loop of LogisticRegressionGD.fit: the gradient step (the
\* sigmoid is uninterpreted: the step yields some vector of ThetaVecs), the
\* histories, the convergence test
LRIterate ==
    /\ lr_pc = "loop"
    /\ \E th \in ThetaVecs, cost \in CostVals :
        /\ theta' = th
        /\ thetas' = Append(thetas, th)
        /\ Js' = Append(Js, cost)
        /\ lr_pc' = IF Converged(lr_i, Append(Js, cost), lr_eps) \/ lr_i + 1 = lr_n_iter
                     THEN "fitted" ELSE "loop"
    /\ lr_i' = lr_i + 1
    /\ UNCHANGED <<lr_n_iter, lr_eps, lr_random_state, lr_base, lr_fits, lr_X,
                   lr_preds, lr_seen, np_random, notLR>>

\* a slip in predict: the scores are written back into the parameters
LRPredictInPlace ==
    /\ lr_pc = "fitted"
    /\ \E X \in LRInputs :
        /\ lr_X' = X
        /\ lr_preds' = LRPredictOut(theta, X)
        /\ theta' = [j \in 1..Len(theta) |-> Dot(ApplyBiasTrick(X)[1], theta)]
        /\ lr_seen' = Noted(lr_seen, X, LRPredictOut(theta, X))
    /\ UNCHANGED <<lr_n_iter, lr_eps, lr_random_state, Js, thetas, lr_i, lr_pc,
                   lr_base, lr_fits, np_random, notLR>>

\* LogisticRegressionGD.predict on a fitted instance (on an unfitted one
\* X.dot(None) raises and nothing changes)
LRPredict ==
    /\ lr_pc = "fitted"
    /\ \E X \in LRInputs :
        /\ lr_X' = X
        /\ lr_preds' = LRPredictOut(theta, X)
        /\ lr_seen' = Noted(lr_seen, X, LRPredictOut(theta, X))
    /\ UNCHANGED <<lr_n_iter, lr_eps, lr_random_state, theta, Js, thetas, lr_i,
                   lr_pc, lr_base, lr_fits, np_random, notLR>>

\* ------------------------------------------- NaiveBayesGaussian
\* a Python dict, as the list of its <<key, value>> items in insertion order
DictKeys(d) == [i \in 1..Len(d) |-> d[i][1]]
DictHas(d, key) == \E i \in 1..Len(d) : d[i][1] = key
DictGet(d, key) == d[CHOOSE i \in 1..Len(d) : d[i][1] = key][2]
\* d[key] = v: a known key keeps its place, a new one goes last
DictSet(d, key, v) ==
    IF DictHas(d, key)
    THEN [i \in 1..Len(d) |-> IF d[i][1] = key THEN <<key, v>> ELSE d[i]]
    ELSE Append(d, <<key, v>>)

\* the increasing sequence of the elements of a set of integers
RECURSIVE Sorted(_)
Sorted(S) ==
    IF S = {} THEN <<>>
    ELSE LET lo == CHOOSE x \in S : \A z \in S : x <= z
         IN <<lo>> \o Sorted(S \ {lo})

\* np.unique(y)
Unique(y) == Sorted({y[p] : p \in 1..Len(y)})

\* the subsequence of s at the positions where keep holds
RECURSIVE Select(_, _)
Select(s, keep) ==
    IF s = <<>> THEN <<>>
    ELSE Select(SubSeq(s, 1, Len(s) - 1), keep)
         \o (IF keep[Len(s)] THEN <<s[Len(s)]>> ELSE <<>>)

\* X[y == c]
SubData(X, y, c) == Select(X, [p \in 1..Len(y) |-> y[p] = c])

\* em.get_dist_params() of EM(k, random_state) fitted on a column: the triple
\* is a function of k, the seed and the column, and is named by them
EMParams(kk, rs, col) == [k |-> kk, seed |-> rs, col |-> col]

\* the loop body of NaiveBayesGaussian.fit for one class: st is the pair of
\* tables so far, with whether np.random.choice has raised
FitClass(st, X, y, c, kk, rs) ==
    LET sub == SubData(X, y, c)
        pr == DictSet(st.prior, c, Div(I(Len(sub)), I(Len(X))))
    IN IF kk > Len(sub)
       THEN [prior |-> pr, dist_params |-> DictSet(st.dist_params, c, <<>>),
             raised |-> TRUE]
       ELSE [prior |-> pr,
             dist_params |-> DictSet(st.dist_params, c,
                 [j \in 1..NFeat |-> EMParams(kk, rs, Col(sub, j))]),
             raised |-> FALSE]

\* NaiveBayesGaussian.fit: the classes in the order of np.unique(y), until
\* one raises
RECURSIVE FitClasses(_, _, _, _, _, _)
FitClasses(st, X, y, cs, kk, rs) ==
    IF cs = <<>> \/ st.raised THEN st
    ELSE FitClasses(FitClass(st, X, y, Head(cs), kk, rs), X, y, Tail(cs), kk, rs)

\* the values gmm_pdf(x, *params) can take: nan when the column the mixture
\* was fitted on is constant (its sigma is 0), positive otherwise
GmmPdfVals(params, x) == IF Std(params.col) = I(0) THEN {NaN} ELSE DensPos

RECURSIVE ProdSeq(_)
ProdSeq(s) == IF s = <<>> THEN I(1) ELSE Mul(ProdSeq(SubSeq(s, 1, Len(s) - 1)), s[Len(s)])

\* one entry of postiriors_matrix: the product over the columns of the
\* mixture densities, times the prior of the i-th class of the prior table
Posterior(pr, dp, g, row, i) ==
    Mul(ProdSeq([j \in 1..NFeat |-> g[<<DictGet(dp, pr[i][1])[j], row[j]>>]]), pr[i][2])

\* np.argmax of a vector, from 0: the first maximum, a nan counting as one
ArgMax(v) ==
    IF \E i \in 1..Len(v) : v[i].t = "nan"
    THEN (CHOOSE i \in 1..Len(v) : v[i].t = "nan" /\ \A j \in 1..(i - 1) : v[j].t # "nan") - 1
    ELSE (CHOOSE i \in 1..Len(v) :
            /\ \A j \in 1..Len(v) : Ge(v[i], v[j])
            /\ \A j \in 1..(i - 1) : Lt(v[j], v[i])) - 1

\* NaiveBayesGaussian.predict: the column index of the largest posterior
NBPredictOut(pr, dp, g, X) ==
    [p \in 1..Len(X) |-> ArgMax([i \in 1..Len(pr) |-> Posterior(pr, dp, g, X[p], i)])]

\* the arguments at which predict(X) evaluates gmm_pdf
GmmArgs(pr, dp, X) ==
    {<<DictGet(dp, pr[i][1])[j], X[p][j]>> : i \in 1..Len(pr), j \in 1..NFeat, p \in 1..Len(X)}

\* predict indexes dist_params[c][j] for every key c of prior
Indexable(pr, dp) == \A i \in 1..Len(pr) : Len(DictGet(dp, pr[i][1])) = NFeat

\* the result of a call that raised
Raised == <<-1>>

\* NaiveBayesGaussian.__init__
NBConstructed ==
    /\ nb_k \in KVals
    /\ nb_random_state \in Seeds
    /\ prior = <<>> /\ dist_params = <<>>
    /\ nb_fits = 0 /\ nb_y = None
    /\ nb_X = None /\ nb_preds = None /\ nb_seen = <<>> /\ gmm = <<>>
    /\ nb_pc = "constructed"

\* no NaiveBayesGaussian instance exists
NBOff ==
    /\ nb_k = 0 /\ nb_random_state = 0
    /\ prior = <<>> /\ dist_params = <<>>
    /\ nb_fits = 0 /\ nb_y = None
    /\ nb_X = None /\ nb_preds = None /\ nb_seen = <<>> /\ gmm = <<>>
    /\ nb_pc = "off"

\* NaiveBayesGaussian.fit(X, y): the tables are written class by class,
\* every EM instance seeds the generator and draws its k means
NBFit ==
    /\ nb_pc \in {"constructed", "fitted", "raised"}
    /\ nb_fits < MaxFits
    /\ \E y \in TrainY :
        LET st == FitClasses([prior |-> prior, dist_params |-> dist_params,
                              raised |-> FALSE],
                             TrainX, y, Unique(y), nb_k, nb_random_state)
        IN /\ prior' = st.prior
           /\ dist_params' = st.dist_params
           /\ nb_pc' = IF st.raised THEN "raised" ELSE "fitted"
           /\ np_random' = IF st.raised THEN Seeded(nb_random_state)
                            ELSE Advance(Seeded(nb_random_state), nb_k)
           /\ nb_y' = y
    /\ nb_fits' = nb_fits + 1
    /\ nb_seen' = <<>>
    /\ gmm' = <<>>
    /\ UNCHANGED <<nb_k, nb_random_state, nb_X, nb_preds, notNB>>

\* the tables of gmm_pdf values after predict(X): those computed before
\* stay (gmm_pdf is a function), the new arguments get values
GmmTables(pr, dp, g, X) ==
    LET args == GmmArgs(pr, dp, X) \ DOMAIN g
        free == {a \in args : GmmPdfVals(a[1], a[2]) = DensPos}
    IN {f @@ [a \in args \ free |-> NaN] @@ g : f \in [free -> DensPos]}

\* a slip in predict: the posteriors of the first instance are written into
\* the prior table
NBPredictInPlace ==
    /\ nb_pc = "fitted"
    /\ \E X \in NBInputs :
        /\ nb_X' = X
        /\ IF Indexable(prior, dist_params)
           THEN \E g \in GmmTables(prior, dist_params, gmm, X) :
                \E out \in {NBPredictOut(prior, dist_params, g, X)} :
                  /\ gmm' = g
                  /\ nb_preds' = out
                  /\ prior' = [i \in 1..Len(prior) |->
                                 <<prior[i][1], Posterior(prior, dist_params, g, X[1], i)>>]
                  /\ nb_seen' = Noted(nb_seen, X, out)
           ELSE /\ nb_preds' = Raised
                /\ nb_seen' = Noted(nb_seen, X, Raised)
                /\ UNCHANGED <<gmm, prior>>
    /\ UNCHANGED <<nb_k, nb_random_state, dist_params, nb_pc, nb_fits, nb_y,
                   np_random, notNB>>

\* NaiveBayesGaussian.predict(X) after a completed fit; it raises IndexError
\* when a key of prior has no mixtures in dist_params
NBPredict ==
    /\ nb_pc = "fitted"
    /\ \E X \in NBInputs :
        /\ nb_X' = X
        /\ IF Indexable(prior, dist_params)
           THEN \E g \in GmmTables(prior, dist_params, gmm, X) :
                \E out \in {NBPredictOut(prior, dist_params, g, X)} :
                  /\ gmm' = g
                  /\ nb_preds' = out
                  /\ nb_seen' = Noted(nb_seen, X, out)
           ELSE /\ nb_preds' = Raised
                /\ nb_seen' = Noted(nb_seen, X, Raised)
                /\ gmm' = gmm
    /\ UNCHANGED <<nb_k, nb_random_state, prior, dist_params, nb_pc, nb_fits, nb_y,
                   np_random, notNB>>

\* ------------------------------------------------ cross_validation
\* np.random.permutation(m): for some seed, any arrangement of 1..m
Permutation(m) == {q \in [1..m -> 1..m] : \A a, b \in 1..m : q[a] = q[b] => a = b}

\* elements_lst[start_threshhold:end_threshhold] for fold i, as positions
\* counted from 1; a slice ends where the list ends
TestList(i, num, m) ==
    LET lo == (i - 1) * num + 1
        hi == IF i * num > m THEN m ELSE i * num
    IN [q \in 1..(IF hi < lo THEN 0 ELSE hi - lo + 1) |-> lo + q - 1]

\* a slip: the training rows are deleted from X, not from X_shuffled
TrainOfUnshuffled(shuf, test) ==
    Select([q \in 1..Len(shuf) |-> q],
           [q \in 1..Len(shuf) |-> \A t \in 1..Len(test) : test[t] # q])

\* np.delete(X_shuffled, test_list, axis=0): the shuffled instances at the
\* positions not listed
TrainOf(shuf, test) ==
    Select(shuf, [q \in 1..Len(shuf) |-> \A t \in 1..Len(test) : test[t] # q])

\* X_shuffled[test_list]
TestOf(shuf, test) == [t \in 1..Len(test) |-> shuf[test[t]]]

\* the values np.mean(test_predict == y_test) can take on n held-out
\* instances (nan on none)
AccuracyVals(n) == IF n = 0 THEN {NaN} ELSE {Q(c, n) : c \in 0..n}

\* a call cross_validation(X, y, folds, algo, random_state)
CVCalled ==
    /\ cv_m \in 1..MaxRows
    /\ folds \in 0..(MaxRows + 1)
    /\ cv_random_state \in Seeds
    /\ shuffled_indices = None /\ num_of_elements = 0 /\ cv_i = 0
    /\ cv_accuracy = I(0) /\ cv_calls = <<>>
    /\ cv_pc = "called"

\* cross_validation is not running
CVOff ==
    /\ cv_m = 0 /\ folds = 0 /\ cv_random_state = 0
    /\ shuffled_indices = None /\ num_of_elements = 0 /\ cv_i = 0
    /\ cv_accuracy = I(0) /\ cv_calls = <<>>
    /\ cv_pc = "off"

\* cross_validation up to its loop: the shuffle and the fold size; the
\* division raises ZeroDivisionError on folds = 0
CVShuffle ==
    /\ cv_pc = "called"
    /\ np_random' = Advance(Seeded(cv_random_state), 1)
    /\ shuffled_indices' \in Permutation(cv_m)
    /\ IF folds = 0
       THEN cv_pc' = "raised" /\ UNCHANGED <<num_of_elements, cv_i>>
       ELSE /\ num_of_elements' = cv_m \div folds
            /\ cv_i' = 1
            /\ cv_pc' = "fold"
    /\ UNCHANGED <<cv_m, folds, cv_random_state, cv_accuracy, cv_calls, notCV>>

\* one trip of the loop of cross_validation: algo is fitted on the rows
\* left after deleting the fold's block and scored on the block; after the
\* last trip the mean accuracy is returned
CVFold ==
    /\ cv_pc = "fold"
    /\ LET test_list == TestList(cv_i, num_of_elements, cv_m)
           train == TrainOf(shuffled_indices, test_list)
           test == TestOf(shuffled_indices, test_list)
       IN /\ cv_calls' = Append(cv_calls, [train |-> train, test |-> test])
          /\ \E fold_accuracy \in AccuracyVals(Len(test)) :
                cv_accuracy' = Add(cv_accuracy, fold_accuracy)
    /\ cv_i' = cv_i + 1
    /\ cv_pc' = IF cv_i = folds THEN "returned" ELSE "fold"
    /\ UNCHANGED <<cv_m, folds, cv_random_state, shuffled_indices, num_of_elements,
                   np_random, notCV>>

\* ------------------------------------------------- specifications
vars == <<np_random, emVars, lrVars, nbVars, cvVars>>

\* the generator as the process starts: seeded by numpy
Unseeded == np_random \in {Seeded(s) : s \in Seeds}

InitEM == EMConstructed /\ LROff /\ NBOff /\ CVOff
NextEM == SeedElsewhere \/ DrawElsewhere \/ EMFitStart \/ EMIterate
SpecEM == InitEM /\ [][NextEM]_vars

\* either iterative estimator
InitFit == InitEM \/ (LRConstructed /\ Unseeded /\ EMOff /\ NBOff /\ CVOff)
NextFit == NextEM \/ LRFitStart \/ LRIterate \/ LRPredict
SpecFit == InitFit /\ [][NextFit]_vars

InitLR == LRConstructed /\ Unseeded /\ EMOff /\ NBOff /\ CVOff
NextLR == LRFitStart \/ LRIterate \/ LRPredict

InitNB == NBConstructed /\ Unseeded /\ EMOff /\ LROff /\ CVOff
NextNB == NBFit \/ NBPredict
SpecNB == InitNB /\ [][NextNB]_vars

InitCV == CVCalled /\ Unseeded /\ EMOff /\ LROff /\ NBOff
NextCV == CVShuffle \/ CVFold
SpecCV == InitCV /\ [][NextCV]_vars

\* either classifier
InitPredict == InitLR \/ InitNB
NextPredict == NextLR \/ NextNB
SpecPredict == InitPredict /\ [][NextPredict]_vars

\* ------------------------------------------------- properties of EM
\* an iteration of the running (or last) fit has completed
Iterated == em_pc \in {"loop", "fitted"} /\ em_i >= 1

M == Len(data)

\* row p had an entry other than zero before the normalisation
RowNotAllZero(p) == \E i \in 1..em_k : likelihood[p][i] # I(0)

\* row p was finite with a positive sum before the normalisation
RowFinitePositive(p) ==
    /\ \A i \in 1..em_k : likelihood[p][i].t = "q"
    /\ SumSeq(likelihood[p]) # I(0)

RowNormalised(p) ==
    /\ SumSeq(responsibilities[p]) = I(1)
    /\ \A i \in 1..em_k :
         Ge(responsibilities[p][i], I(0)) /\ Ge(I(1), responsibilities[p][i])

\* C6 as stated: after every E-step each row of the responsibility matrix
\* sums to 1 with entries in [0, 1], and after every M-step the weights sum
\* to 1, provided no row's unnormalised responsibilities are all zero.
C6_RowsAndWeightsNormalised ==
    Iterated =>
        /\ \A p \in 1..M : RowNotAllZero(p) => RowNormalised(p)
        /\ (\A p \in 1..M : RowNotAllZero(p)) => SumSeq(weights) = I(1)

\* C6 amended: the same, provided every row's unnormalised responsibilities
\* are finite numbers with a nonzero sum (a sigma of 0 makes them nan).
C6_RowsAndWeightsNormalisedIfFinite ==
    Iterated =>
        /\ \A p \in 1..M : RowFinitePositive(p) => RowNormalised(p)
        /\ (\A p \in 1..M : RowFinitePositive(p)) => SumSeq(weights) = I(1)

\* C6 witness: a second iteration of a two-component fit has left a row
\* split 1/3 : 2/3 and unequal weights
C6_Witness ==
    /\ Iterated /\ em_i = 2 /\ em_k = 2
    /\ \A p \in 1..M : RowFinitePositive(p)
    /\ \E p \in 1..M : responsibilities[p][1] = Q(1, 3)
    /\ weights[1] # weights[2]

NonzeroVariance == Std(data) # I(0)

\* C7 as stated: with k = 1 and data of nonzero variance, after fit the
\* weight is 1, the mean is the sample mean and sigma is the population
\* standard deviation, however many iterations the loop ran.
C7_SingleGaussianRecovered ==
    (em_pc = "fitted" /\ em_k = 1 /\ NonzeroVariance) =>
        /\ weights = <<I(1)>>
        /\ mus = <<Mean(data)>>
        /\ sigmas = <<Std(data)>>

\* C7 amended: the same, provided the loop ran at least once (n_iter >= 1).
C7_SingleGaussianRecoveredAfterOneIteration ==
    (em_pc = "fitted" /\ em_k = 1 /\ NonzeroVariance /\ em_n_iter >= 1) =>
        /\ weights = <<I(1)>>
        /\ mus = <<Mean(data)>>
        /\ sigmas = <<Std(data)>>

\* C7 witness: a one-component fit on three points has ended, its initial
\* mean was a data point other than the sample mean, sigma is irrational
C7_Witness ==
    /\ em_pc = "fitted" /\ em_k = 1 /\ NonzeroVariance /\ em_n_iter >= 1
    /\ M = 3 /\ init_mus[1] # Mean(data)
    /\ mus = <<Mean(data)>> /\ sigmas[1].t = "sqrt"

\* C10: after an M-step, weight_i is the mean of column i of R, mu_i is
\* sum_p R[p][i]*x_p / (m*weight_i) with that weight, and sigma_i is
\* sqrt(sum_p R[p][i]*(x_p - mu_i)^2 / (m*weight_i)) with that mean and weight.
C10_MStepSequential ==
    Iterated =>
        \A i \in 1..em_k :
            /\ weights[i] = Div(SumSeq([p \in 1..M |-> responsibilities[p][i]]), I(M))
            /\ mus[i] = Div(SumSeq([p \in 1..M |-> Mul(responsibilities[p][i], data[p])]),
                            Mul(I(M), weights[i]))
            /\ sigmas[i] =
                 Sqrt(Div(SumSeq([p \in 1..M |->
                              Mul(responsibilities[p][i],
                                  Mul(Sub(data[p], mus[i]), Sub(data[p], mus[i])))]),
                          Mul(I(M), weights[i])))

\* C10 witness: a second M-step of a two-component fit moved a mean away
\* from the data point it started on, with unequal weights
C10_Witness ==
    /\ Iterated /\ em_i = 2 /\ em_k = 2
    /\ weights[1].t = "q" /\ weights[1] # weights[2]
    /\ mus[1] # init_mus[1] /\ mus[1] # mus[2]

\* C5: the initial means EM.fit draws, the only random input of the fitted
\* parameters, are those of a generator seeded with this instance's
\* random_state, whatever was seeded or drawn elsewhere between construction
\* and fit and whether or not the instance was fitted before.
C5_FitReproducible ==
    (em_pc \in {"loop", "fitted"} /\ em_fits >= 1) =>
        init_mus = InitMus(Seeded(em_random_state), data, em_k)

\* ------------------------------------------ properties of the fit loops
\* the costs of the running (or last) fit call
CallCosts(cs, base) == SubSeq(cs, base + 1, Len(cs))

\* iteration t (counted from 1) of a call with costs c lowered the cost by
\* less than eps
SmallDrop(c, t, e) == Lt(Sub(c[t - 1], c[t]), e)

\* the state of a fit loop that has made i iterations
LoopAsClaimed(pc, i, n, e, cs, base) ==
    LET c == CallCosts(cs, base)
    IN /\ i <= n
       /\ Len(cs) = base + i
       /\ pc = "loop" => i < n
       /\ pc = "fitted" => (i = n \/ (i >= 3 /\ SmallDrop(c, i, e)))
       /\ \A t \in 3..i : SmallDrop(c, t, e) => (t = i /\ pc = "fitted")

\* C4: each fit loop ends after at most n_iter iterations with one cost
\* appended per iteration; it does not stop early in its first two
\* iterations; from the third on it stops at the first iteration whose cost
\* fell by less than eps (both costs of this call), else it runs n_iter times.
C4_LoopStopsAsClaimed ==
    /\ lr_pc \in {"loop", "fitted"} =>
         LoopAsClaimed(lr_pc, lr_i, lr_n_iter, lr_eps, Js, lr_base)
    /\ em_pc \in {"loop", "fitted"} =>
         LoopAsClaimed(em_pc, em_i, em_n_iter, em_eps, costs, em_base)

\* C4 witness: a loop of n_iter = 4 stopped at its third iteration, on a
\* cost that rose
C4_Witness ==
    \/ /\ lr_pc = "fitted" /\ lr_n_iter = 4 /\ lr_i = 3
       /\ Lt(Js[2], Js[3])
    \/ /\ em_pc = "fitted" /\ em_n_iter = 4 /\ em_i = 3
       /\ Lt(costs[2], costs[3])

\* ------------------------------------------- properties of Naive Bayes
\* the labels given to the last fit
Labels == {nb_y[p] : p \in 1..Len(nb_y)}

\* predict has returned for nb_X since the last fit
Predicted == nb_pc = "fitted" /\ nb_X \in DOMAIN nb_seen /\ nb_preds # Raised

\* the posteriors of instance p of nb_X, by position in the prior table
Posteriors(p) ==
    [i \in 1..Len(prior) |-> Posterior(prior, dist_params, gmm, nb_X[p], i)]

\* position i holds the first largest entry of v
FirstLargest(v, i) ==
    /\ \A j \in 1..Len(v) : Ge(v[i], v[j])
    /\ \A j \in 1..(i - 1) : Lt(v[j], v[i])

\* C1: predict returns, for every instance, the label whose posterior
\* prior[c] * prod_j gmm_pdf(x_j, dist_params[c][j]) is largest, the first
\* such label in the order of the prior table on a tie.
C1_PredictReturnsLabelOfMaxPosterior ==
    Predicted =>
        \A p \in 1..Len(nb_X) : \A i \in 1..Len(prior) :
            FirstLargest(Posteriors(p), i) => nb_preds[p] = prior[i][1]

\* C3: after a completed fit the keys of prior are the labels of that call's
\* y, each value is the label's relative frequency, the values sum to 1,
\* and dist_params holds one list of n mixtures for each of those labels
\* and for no other.
C3_TablesAreOfLastFit ==
    nb_pc = "fitted" =>
        /\ {prior[i][1] : i \in 1..Len(prior)} = Labels
        /\ Len(prior) = Cardinality(Labels)
        /\ \A i \in 1..Len(prior) :
             prior[i][2] = Q(Cardinality({p \in 1..Len(nb_y) : nb_y[p] = prior[i][1]}),
                             Len(nb_y))
        /\ SumSeq([i \in 1..Len(prior) |-> prior[i][2]]) = I(1)
        /\ {dist_params[i][1] : i \in 1..Len(dist_params)} = Labels
        /\ Len(dist_params) = Cardinality(Labels)
        /\ \A i \in 1..Len(dist_params) : Len(dist_params[i][2]) = NFeat

\* ------------------------------------------------ properties of predict
LRPredictStep == lr_pc = "fitted" /\ lr_pc' = "fitted" /\ lr_fits' = lr_fits
NBPredictStep == nb_pc = "fitted" /\ nb_pc' = "fitted" /\ nb_fits' = nb_fits

\* C9: a predict call leaves the fitted state unchanged (theta, Js, thetas;
\* prior, dist_params) and returns what the first predict call with that
\* argument returned since the fit, whatever calls were made in between.
C9_PredictReadOnly ==
    [][/\ (LRPredictStep =>
            (UNCHANGED <<theta, Js, thetas>> /\ lr_preds' = lr_seen'[lr_X'].out))
       /\ (NBPredictStep =>
            (UNCHANGED <<prior, dist_params>> /\ nb_preds' = nb_seen'[nb_X'].out))]_vars

\* C9 witness: predict was given two arguments, the last of them for the
\* second time, and returned two different classes for its two instances
C9_Witness ==
    /\ nb_pc = "fitted"
    /\ DOMAIN nb_seen = NBInputs
    /\ nb_X \in DOMAIN nb_seen /\ nb_seen[nb_X].again
    /\ Len(nb_preds) = 2 /\ nb_preds[1] # nb_preds[2]

\* --------------------------------------- properties of cross_validation
Instances == 1..cv_m
SetOf(q) == {q[t] : t \in 1..Len(q)}

\* C2: with folds in [2, m] the held-out blocks are pairwise disjoint sets
\* of exactly floor(m/folds) instances, every fold is trained on exactly the
\* complement of its block, and when all folds are done every instance is
\* in one block except m mod folds instances, which are in none.
C2_FoldsPartition ==
    (folds >= 2 /\ folds <= cv_m) =>
        /\ \A a \in 1..Len(cv_calls) :
             /\ Len(cv_calls[a].test) = cv_m \div folds
             /\ Cardinality(SetOf(cv_calls[a].test)) = cv_m \div folds
             /\ SetOf(cv_calls[a].train) \cap SetOf(cv_calls[a].test) = {}
             /\ SetOf(cv_calls[a].train) \cup SetOf(cv_calls[a].test) = Instances
             /\ Len(cv_calls[a].train) = cv_m - cv_m \div folds
             /\ \A b \in 1..Len(cv_calls) :
                  a # b => SetOf(cv_calls[a].test) \cap SetOf(cv_calls[b].test) = {}
        /\ cv_pc = "returned" =>
             /\ Len(cv_calls) = folds
             /\ LET held == UNION {SetOf(cv_calls[a].test) : a \in 1..folds}
                IN /\ Cardinality(Instances \ held) = cv_m % folds
                   /\ \A x \in Instances \ held :
                        \A a \in 1..folds : x \in SetOf(cv_calls[a].train)

\* C2 witness: four instances in three folds, shuffled out of order, one
\* instance never held out
C2_Witness ==
    /\ cv_pc = "returned" /\ cv_m = 4 /\ folds = 3
    /\ shuffled_indices = <<3, 1, 4, 2>>
    /\ \A a \in 1..3 : 2 \in SetOf(cv_calls[a].train)

\* C8: folds < 2 is rejected, so algo is never fitted (on an empty training
\* set, with all instances held out); with folds = m every block holds one
\* instance.
C8_FoldsGuarded ==
    /\ folds < 2 => cv_calls = <<>>
    /\ folds = cv_m => \A a \in 1..Len(cv_calls) : Len(cv_calls[a].test) = 1

====
